---- MODULE Spec2Model ----
(***************************************************************************)
(* Model of src/script.js: the click handler of #compare-btn, which reads  *)
(* two symbols from the input fields, fetches two ticker documents one     *)
(* after the other, divides their quoteVolume fields, formats the quotient *)
(* with toFixed(2) and writes the result (or a generic error text) to the  *)
(* #crypto-data element.                                                   *)
(*                                                                         *)
(* Each click starts an invocation of the async handler.  An invocation    *)
(* suspends at its four awaits (fetch, fetch, json, json); the network     *)
(* decides how each await settles.  Strings are TLA+ strings, built with   *)
(* \o as the template literals build them.  Numbers are IEEE 754 doubles,  *)
(* kept exactly: the conversion of a string to a number, the division and  *)
(* toFixed are computed on natural numbers of unbounded size.              *)
(***************************************************************************)
EXTENDS Integers, Sequences, FiniteSets, TLC

(* ------------------------------ bounds --------------------------------- *)

\* Number of handler invocations (clicks) a behaviour may contain.
NumInvocations == 2

Invocations == 1..NumInvocations

\* Contents the user can give the two input fields.
Symbols == {"BTCUSDT", "ETHUSDT"}

(* --------------------------- natural numbers --------------------------- *)

\* TLC's integers have 32 bits; a double's significand has 53.  A natural
\* number of any size is the sequence of its digits in base 2^15, least
\* significant first, without leading zeros; zero is the empty sequence.
\*
\* An operator that uses an argument more than once binds it first, as in
\* CHOOSE r \in {F(x) : x \in {argument}} : TRUE, which is F(argument) with
\* the argument computed once.
Base == 32768

Max(S) == CHOOSE r \in {CHOOSE x \in T : \A y \in T : y <= x : T \in {S}} : TRUE
Min(S) == CHOOSE r \in {CHOOSE x \in T : \A y \in T : x <= y : T \in {S}} : TRUE

\* Iterate(Op, s, n): Op applied n times to s, each intermediate result
\* computed once.
RECURSIVE Iterate(_, _, _)
Iterate(Op(_), s, n) ==
    IF n <= 0 THEN s
    ELSE IF n = 1 THEN CHOOSE r \in {Op(t) : t \in {s}} : TRUE
    ELSE CHOOSE r \in {Iterate(Op, t, n - (n \div 2)) : t \in {Iterate(Op, s, n \div 2)}} : TRUE

Limb(a, i) == IF i >= 1 /\ i <= Len(a) THEN a[i] ELSE 0

\* The sequence without its leading (last) zeros.
BigNorm(x) ==
    CHOOSE r \in
        { IF \A i \in 1..Len(a) : a[i] = 0 THEN << >>
          ELSE SubSeq(a, 1, CHOOSE i \in 1..Len(a) :
                               a[i] # 0 /\ \A j \in (i + 1)..Len(a) : a[j] = 0)
          : a \in {x} } : TRUE

\* n is a natural number below 2^31.
BigFromInt(n) == BigNorm(<< n % Base, (n \div Base) % Base, n \div (Base * Base) >>)

\* -1, 0, 1 as x < y, x = y, x > y.
BigCmp(x, y) ==
    CHOOSE r \in
        { IF Len(a) # Len(b) THEN (IF Len(a) < Len(b) THEN 0 - 1 ELSE 1)
          ELSE IF a = b THEN 0
          ELSE IF \E i \in 1..Len(a) :
                      a[i] < b[i] /\ \A j \in (i + 1)..Len(a) : a[j] = b[j]
               THEN 0 - 1
          ELSE 1
          : a \in {x}, b \in {y} } : TRUE

\* One digit of a sum or of a difference: << carry, digits >> is the state.
AddStep(a, b, s) ==
    CHOOSE r \in
        { << t \div Base, Append(s[2], t % Base) >>
          : t \in {Limb(a, Len(s[2]) + 1) + Limb(b, Len(s[2]) + 1) + s[1]} } : TRUE

SubStep(a, b, s) ==
    CHOOSE r \in
        { << IF t < 0 THEN 1 ELSE 0, Append(s[2], (t + Base) % Base) >>
          : t \in {a[Len(s[2]) + 1] - Limb(b, Len(s[2]) + 1) - s[1]} } : TRUE

\* x + y.
BigAdd(x, y) ==
    CHOOSE r \in
        { LET Step(s) == AddStep(a, b, s)
          IN  BigNorm(Iterate(Step, << 0, << >> >>, Max({Len(a), Len(b)}) + 1)[2])
          : a \in {x}, b \in {y} } : TRUE

\* x - y, for x >= y.
BigSub(x, y) ==
    CHOOSE r \in
        { LET Step(s) == SubStep(a, b, s)
          IN  BigNorm(Iterate(Step, << 0, << >> >>, Len(a))[2])
          : a \in {x}, b \in {y} } : TRUE

\* x * d, for 0 <= d < Base.
BigMulSmall(x, d) ==
    CHOOSE r \in
        { BigAdd([i \in 1..Len(a) |-> (a[i] * e) % Base],
                 << 0 >> \o [i \in 1..Len(a) |-> (a[i] * e) \div Base])
          : a \in {x}, e \in {d} } : TRUE

\* x * Base^k.
BigShiftLimbs(x, k) ==
    CHOOSE r \in
        { IF a = << >> THEN << >> ELSE [i \in 1..k |-> 0] \o a : a \in {x} } : TRUE

\* a times the digits lo..hi of b, in their places; a and b are values.
RECURSIVE BigMulRange(_, _, _, _)
BigMulRange(a, b, lo, hi) ==
    IF lo = hi THEN BigShiftLimbs(BigMulSmall(a, b[lo]), lo - 1)
    ELSE BigAdd(BigMulRange(a, b, lo, (lo + hi) \div 2),
                BigMulRange(a, b, ((lo + hi) \div 2) + 1, hi))

\* x * y.
BigMul(x, y) ==
    CHOOSE r \in
        { IF a = << >> \/ b = << >> THEN << >> ELSE BigMulRange(a, b, 1, Len(b))
          : a \in {x}, b \in {y} } : TRUE

\* x * 2^k and floor(x / 2^k) and x mod 2^k.
BigShiftLeft(x, k) == BigShiftLimbs(BigMulSmall(x, 2 ^ (k % 15)), k \div 15)

BigShiftRight(x, k) ==
    CHOOSE res \in
        { IF Len(a) <= q THEN << >>
          ELSE BigNorm([i \in 1..(Len(a) - q) |->
                   (a[i + q] \div (2 ^ r)) + (Limb(a, i + q + 1) % (2 ^ r)) * (2 ^ (15 - r))])
          : a \in {x}, q \in {k \div 15}, r \in {k % 15} } : TRUE

BigLowBits(x, k) ==
    CHOOSE res \in
        { BigNorm([i \in 1..Min({Len(a), q + 1}) |-> IF i <= q THEN a[i] ELSE a[i] % (2 ^ r)])
          : a \in {x}, q \in {k \div 15}, r \in {k % 15} } : TRUE

\* The number of bits of x; 0 for zero.
BigBitLen(x) ==
    CHOOSE r \in
        { IF a = << >> THEN 0
          ELSE 15 * (Len(a) - 1)
               + (CHOOSE k \in 1..15 : 2 ^ (k - 1) <= a[Len(a)] /\ a[Len(a)] < 2 ^ k)
          : a \in {x} } : TRUE

\* Bit i of a; bit 0 is the least significant.
BigBit(a, i) == (Limb(a, (i \div 15) + 1) \div (2 ^ (i % 15))) % 2

\* The number of zero bits below the lowest one bit of x, for x # 0.
BigTrailingZeros(x) ==
    CHOOSE r \in
        { CHOOSE t \in
              { 15 * (j - 1)
                + (CHOOSE k \in 0..14 : a[j] % (2 ^ (k + 1)) # 0 /\ a[j] % (2 ^ k) = 0)
                : j \in {Min({i \in 1..Len(a) : a[i] # 0})} } : TRUE
          : a \in {x} } : TRUE

\* 2x + bit.
BigDouble(x, bit) ==
    CHOOSE r \in
        { BigNorm([i \in 1..(Len(a) + 1) |->
              ((Limb(a, i) * 2) % Base) + (IF i = 1 THEN bit ELSE a[i - 1] \div (2 ^ 14))])
          : a \in {x} } : TRUE

\* One digit of a division by d: << next digit, remainder, quotient >>.
DivSmallStep(a, d, s) ==
    CHOOSE r \in
        { << s[1] - 1, cur % d, << cur \div d >> \o s[3] >>
          : cur \in {s[2] * Base + a[s[1]]} } : TRUE

\* Quotient and remainder of x by d, for 0 < d < Base: << quotient, remainder >>.
BigDivSmall(x, d) ==
    CHOOSE r \in
        { LET Step(s) == DivSmallStep(a, e, s)
          IN  CHOOSE qr \in
                  { << BigNorm(end[3]), end[2] >>
                    : end \in {Iterate(Step, << Len(a), 0, << >> >>, Len(a))} } : TRUE
          : a \in {x}, e \in {d} } : TRUE

\* One bit of a long division of a by b: << next bit, remainder, quotient >>.
DivModStep(a, b, s) ==
    CHOOSE res \in
        { IF BigCmp(r, b) >= 0
          THEN << s[1] - 1, BigSub(r, b), BigDouble(s[3], 1) >>
          ELSE << s[1] - 1, r, BigDouble(s[3], 0) >>
          : r \in {BigDouble(s[2], BigBit(a, s[1] - 1))} } : TRUE

\* Quotient and remainder of x by y, for y # 0, by binary long division:
\* << quotient, remainder >>.
BigDivMod(x, y) ==
    CHOOSE res \in
        { IF BigCmp(a, b) < 0 THEN << << >>, a >>
          ELSE IF Len(b) = 1
               THEN CHOOSE r \in { << qr[1], BigFromInt(qr[2]) >>
                                   : qr \in {BigDivSmall(a, b[1])} } : TRUE
          ELSE CHOOSE r \in
                   { LET Step(s) == DivModStep(a, b, s)
                     IN  CHOOSE qr \in
                             { << end[3], end[2] >>
                               : end \in {Iterate(Step, << n, BigShiftRight(a, n), << >> >>, n)} } : TRUE
                     : n \in {BigBitLen(a) - BigBitLen(b) + 1} } : TRUE
          : a \in {x}, b \in {y} } : TRUE

\* 10^k.
BigPow10(k) ==
    LET Step(s) == << BigMulSmall(s[1], 10000) >>
    IN  Iterate(Step, << << 10 ^ (k % 4) >> >>, k \div 4)[1]

\* The decimal digits of a natural number of TLC, as many as it needs.
DigitChars == << "0", "1", "2", "3", "4", "5", "6", "7", "8", "9" >>

RECURSIVE IntToDecimal(_)
IntToDecimal(n) ==
    IF n < 10 THEN << DigitChars[n + 1] >>
    ELSE Append(IntToDecimal(n \div 10), DigitChars[(n % 10) + 1])

\* The decimal digits of a value a, most significant first; << "0" >> for zero.
RECURSIVE BigToDecimal(_)
BigToDecimal(a) ==
    IF Len(a) <= 1 THEN IntToDecimal(Limb(a, 1))
    ELSE CHOOSE r \in
             { CHOOSE t \in
                   { BigToDecimal(qr[1]) \o [i \in 1..(4 - Len(low)) |-> "0"] \o low
                     : low \in {IntToDecimal(qr[2])} } : TRUE
               : qr \in {BigDivSmall(a, 10000)} } : TRUE

\* The number a sequence of digit values (each below the radix) denotes,
\* most significant first: one digit at a time.
BigFromDigits(ds, radix) ==
    CHOOSE r \in
        { LET Step(s) == << BigAdd(BigMulSmall(s[1], radix), BigFromInt(d[s[2]])), s[2] + 1 >>
          IN  Iterate(Step, << << >>, 1 >>, Len(d))[1]
          : d \in {ds} } : TRUE


\* The string a sequence of one-character strings spells:
RECURSIVE Concat(_)
Concat(chars) ==
    CHOOSE r \in
        { IF Len(cs) = 0 THEN ""
          ELSE IF Len(cs) = 1 THEN cs[1]
          ELSE Concat(SubSeq(cs, 1, Len(cs) \div 2))
                  \o Concat(SubSeq(cs, (Len(cs) \div 2) + 1, Len(cs)))
          : cs \in {chars} } : TRUE

(* ------------------------------- doubles -------------------------------- *)

\* A JavaScript Number: NaN, an infinity, or the finite double
\* (-1)^neg * m * 2^e, where m is a natural number that is odd, or zero
\* with e = 0.  Each double has one such record.
NaN == [k |-> "nan", neg |-> FALSE, m |-> << >>, e |-> 0]
Infinity(neg) == [k |-> "inf", neg |-> neg, m |-> << >>, e |-> 0]
Zero(neg) == [k |-> "fin", neg |-> neg, m |-> << >>, e |-> 0]

\* The double m * 2^e, m having at most 53 bits and the value being in range.
Finite(neg, m, e) ==
    CHOOSE r \in
        { IF x = << >> THEN Zero(neg)
          ELSE CHOOSE t \in
                   { [k |-> "fin", neg |-> neg, m |-> BigShiftRight(x, tz), e |-> e + tz]
                     : tz \in {BigTrailingZeros(x)} } : TRUE
          : x \in {m} } : TRUE

IsZero(x) == x.k = "fin" /\ x.m = << >>

\* The bits of a significand, the exponent of the least subnormal's bit, and
\* the exponent no finite double reaches.
SignificandBits == 53
MinExponent == 0 - 1074
MaxExponent == 1024

\* q / 2^drop rounded to the nearest integer, to the even one at a tie; the
\* number rounded is above q when sticky.
RoundedSignificand(q, sticky, drop) ==
    CHOOSE r \in
        { IF c > 0 \/ (c = 0 /\ (sticky \/ BigBit(m0, 0) = 1))
          THEN BigAdd(m0, << 1 >>)
          ELSE m0
          : m0 \in {BigShiftRight(q, drop)},
            c \in {BigCmp(BigLowBits(q, drop), BigShiftLeft(<< 1 >>, drop - 1))} } : TRUE

\* The double nearest to (q + f) * 2^scale, for a natural number q of more
\* than 55 bits and a fraction 0 <= f < 1 that is not zero when sticky: the
\* significand keeps 53 bits, fewer below the least normal exponent.
RoundQuotient(neg, q, sticky, scale) ==
    CHOOSE r \in
        { IF lsb - scale > BigBitLen(q) + 1 THEN Zero(neg)
          ELSE CHOOSE t \in
                   { IF BigBitLen(m) + lsb > MaxExponent THEN Infinity(neg)
                     ELSE Finite(neg, m, lsb)
                     : m \in {RoundedSignificand(q, sticky, lsb - scale)} } : TRUE
          : lsb \in {Max({BigBitLen(q) + scale - SignificandBits, MinExponent})} } : TRUE

\* The double nearest to (a / b) * 2^sh, ties to the even significand, for
\* natural numbers a and b # 0: the rounding of IEEE 754 binary64, with its
\* gradual underflow and its overflow to an infinity.  The operands are
\* scaled by 2^k so that the integer quotient has 56 or 57 bits.
RoundRatio(neg, a, b, sh) ==
    CHOOSE r \in
        { IF x = << >> THEN Zero(neg)
          ELSE CHOOSE t \in
                   { CHOOSE u \in
                         { RoundQuotient(neg, qr[1], qr[2] # << >>, sh - k)
                           : qr \in {BigDivMod(IF k >= 0 THEN BigShiftLeft(x, k) ELSE x,
                                               IF k >= 0 THEN y ELSE BigShiftLeft(y, 0 - k))} } : TRUE
                     : k \in {(SignificandBits + 3) - (BigBitLen(x) - BigBitLen(y))} } : TRUE
          : x \in {a}, y \in {b} } : TRUE

\* A division that yields zero for a zero divisor.
DivideGuarded(a, b) ==
    CHOOSE r \in
        { IF x.k = "nan" \/ y.k = "nan" THEN NaN
          ELSE IF x.k = "inf" THEN (IF y.k = "inf" THEN NaN ELSE Infinity(x.neg # y.neg))
          ELSE IF y.k = "inf" THEN Zero(x.neg # y.neg)
          ELSE IF IsZero(y) THEN Zero(FALSE)
          ELSE RoundRatio(x.neg # y.neg, x.m, y.m, x.e - y.e)
          : x \in {a}, y \in {b} } : TRUE

\* a / b in IEEE 754 double precision (the operator / of line 12).
Divide(a, b) ==
    CHOOSE r \in
        { IF x.k = "nan" \/ y.k = "nan" THEN NaN
          ELSE IF x.k = "inf" THEN (IF y.k = "inf" THEN NaN ELSE Infinity(x.neg # y.neg))
          ELSE IF y.k = "inf" THEN Zero(x.neg # y.neg)
          ELSE IF IsZero(y) THEN (IF IsZero(x) THEN NaN ELSE Infinity(x.neg # y.neg))
          ELSE RoundRatio(x.neg # y.neg, x.m, y.m, x.e - y.e)
          : x \in {a}, y \in {b} } : TRUE

(* --------------------------- string to number --------------------------- *)

\* A string the number conversion reads is the sequence of its UTF-16 code
\* units.  The code unit of a character the grammar names:
CodeUnit(c) ==
    CASE c = "+" -> 43 [] c = "-" -> 45 [] c = "." -> 46
      [] c = "0" -> 48 [] c = "9" -> 57
      [] c = "A" -> 65 [] c = "B" -> 66 [] c = "E" -> 69 [] c = "F" -> 70
      [] c = "I" -> 73 [] c = "O" -> 79 [] c = "X" -> 88
      [] c = "a" -> 97 [] c = "b" -> 98 [] c = "e" -> 101 [] c = "f" -> 102
      [] c = "i" -> 105 [] c = "n" -> 110 [] c = "o" -> 111 [] c = "t" -> 116
      [] c = "x" -> 120 [] c = "y" -> 121

\* StrWhiteSpaceChar: the WhiteSpace of ECMAScript (TAB, VT, FF, ZWNBSP and
\* the space separators of Unicode: SP, NBSP, U+1680, U+2000 to U+200A,
\* U+202F, U+205F, U+3000) and its LineTerminator (LF, CR, U+2028, U+2029).
WhiteSpace ==
    {9, 11, 12, 65279, 32, 160, 5760, 8239, 8287, 12288} \cup (8192..8202)
        \cup {10, 13, 8232, 8233}

\* The value of a digit in a radix, or -1 when the code unit is no digit of it.
DigitValue(c, radix) ==
    LET v == IF c >= CodeUnit("0") /\ c <= CodeUnit("9") THEN c - CodeUnit("0")
             ELSE IF c >= CodeUnit("a") /\ c <= CodeUnit("f") THEN 10 + (c - CodeUnit("a"))
             ELSE IF c >= CodeUnit("A") /\ c <= CodeUnit("F") THEN 10 + (c - CodeUnit("A"))
             ELSE 0 - 1
    IN  IF v < radix THEN v ELSE 0 - 1

AllDigits(cs, radix) == \A i \in 1..Len(cs) : DigitValue(cs[i], radix) >= 0
DigitsValue(cs, radix) == BigFromDigits([i \in 1..Len(cs) |-> DigitValue(cs[i], radix)], radix)

\* StrWhiteSpace removed from both ends.
Trim(cs) ==
    LET ink == {i \in 1..Len(cs) : cs[i] \notin WhiteSpace}
    IN  IF ink = {} THEN << >> ELSE SubSeq(cs, Min(ink), Max(ink))

\* The digits of a sequence without its leading zeros, and without its
\* last zeros.
StripZeros(cs) ==
    LET nz == {i \in 1..Len(cs) : cs[i] # CodeUnit("0")}
    IN  IF nz = {} THEN << >> ELSE SubSeq(cs, Min(nz), Len(cs))

StripLastZeros(cs) ==
    LET nz == {i \in 1..Len(cs) : cs[i] # CodeUnit("0")}
    IN  IF nz = {} THEN << >> ELSE SubSeq(cs, 1, Max(nz))

\* An integer of any size: its sign and its magnitude.
Signed(neg, mag) == [neg |-> neg, mag |-> mag]

\* n is an integer of TLC.
SignedFromInt(n) == Signed(n < 0, BigFromInt(IF n < 0 THEN 0 - n ELSE n))

\* x is below 2^30 in magnitude.
SignedToInt(x) ==
    IF x.neg THEN 0 - (Limb(x.mag, 1) + Limb(x.mag, 2) * Base)
    ELSE Limb(x.mag, 1) + Limb(x.mag, 2) * Base

\* x + y.
SignedAdd(x, y) ==
    CHOOSE r \in
        { IF a.neg = b.neg THEN Signed(a.neg, BigAdd(a.mag, b.mag))
          ELSE IF BigCmp(a.mag, b.mag) >= 0 THEN Signed(a.neg, BigSub(a.mag, b.mag))
          ELSE Signed(b.neg, BigSub(b.mag, a.mag))
          : a \in {x}, b \in {y} } : TRUE

\* The value of the exponent digits: a natural number of any size.
ExponentValue(cs) == DigitsValue(StripZeros(cs), 10)

\* The double nearest to digits * 10^(exponent - fraction), digits being
\* decimal digits, fraction how many of them follow the point, exponent an
\* integer of any size.  With top the number of digits before the point of
\* the value, the value is in [10^(top-1), 10^top): with top > 310 it is
\* beyond the largest double, and with top < -330 it is below half the
\* least subnormal.
RoundDecimal(neg, digits, fraction, exponent) ==
    CHOOSE r \in
        { IF ds = << >> THEN Zero(neg)
          ELSE CHOOSE t \in
                   { IF ~top.neg /\ BigCmp(top.mag, BigFromInt(310)) > 0 THEN Infinity(neg)
                     ELSE IF top.neg /\ BigCmp(top.mag, BigFromInt(330)) > 0 THEN Zero(neg)
                     ELSE CHOOSE u \in
                              { IF e >= 0
                                THEN RoundRatio(neg, BigMul(DigitsValue(sig, 10), BigPow10(e)),
                                                << 1 >>, 0)
                                ELSE RoundRatio(neg, DigitsValue(sig, 10), BigPow10(0 - e), 0)
                                : sig \in {StripLastZeros(ds)},
                                  e \in {SignedToInt(top) - Len(StripLastZeros(ds))} } : TRUE
                     : top \in {SignedAdd(exponent, SignedFromInt(Len(ds) - fraction))} } : TRUE
          : ds \in {StripZeros(digits)} } : TRUE

\* The digits before and after the point of a mantissa, with the exponent
\* e: their double, or NaN when they are not digits or there is none.
DecimalOf(neg, mant, e) ==
    CHOOSE r \in
        { LET int == IF dots = {} THEN mant ELSE SubSeq(mant, 1, Min(dots) - 1)
              frac == IF dots = {} THEN << >> ELSE SubSeq(mant, Min(dots) + 1, Len(mant))
          IN  IF AllDigits(int, 10) /\ AllDigits(frac, 10) /\ Len(int) + Len(frac) >= 1
              THEN RoundDecimal(neg, int \o frac, Len(frac), e)
              ELSE NaN
          : dots \in {{i \in 1..Len(mant) : mant[i] = CodeUnit(".")}} } : TRUE

\* The ExponentPart after the letter e: its value, an integer of any size,
\* or none when it is not a signed integer.
ExponentOf(expo) ==
    LET esign == Len(expo) > 0 /\ expo[1] \in {CodeUnit("+"), CodeUnit("-")}
        edigits == IF esign THEN SubSeq(expo, 2, Len(expo)) ELSE expo
    IN  IF Len(edigits) >= 1 /\ AllDigits(edigits, 10)
        THEN [ok |-> TRUE,
              value |-> Signed(esign /\ expo[1] = CodeUnit("-"), ExponentValue(edigits))]
        ELSE [ok |-> FALSE, value |-> Signed(FALSE, << >>)]

\* StrUnsignedDecimalLiteral other than Infinity: digits with an optional
\* fraction and an optional exponent; NaN when the code units are not one.
UnsignedDecimal(neg, chars) ==
    CHOOSE r \in
        { IF es = {} THEN DecimalOf(neg, cs, Signed(FALSE, << >>))
          ELSE CHOOSE t \in
                   { IF e.ok THEN DecimalOf(neg, SubSeq(cs, 1, Min(es) - 1), e.value) ELSE NaN
                     : e \in {ExponentOf(SubSeq(cs, Min(es) + 1, Len(cs)))} } : TRUE
          : cs \in {chars},
            es \in {{i \in 1..Len(chars) : chars[i] \in {CodeUnit("e"), CodeUnit("E")}}} } : TRUE

InfinityChars ==
    << CodeUnit("I"), CodeUnit("n"), CodeUnit("f"), CodeUnit("i"),
       CodeUnit("n"), CodeUnit("i"), CodeUnit("t"), CodeUnit("y") >>

\* A literal 0x.., 0o.. or 0b..: the radix, or 0 when it is none.
RadixOf(cs) ==
    IF Len(cs) >= 3 /\ cs[1] = CodeUnit("0")
    THEN IF cs[2] \in {CodeUnit("x"), CodeUnit("X")} THEN 16
         ELSE IF cs[2] \in {CodeUnit("o"), CodeUnit("O")} THEN 8
         ELSE IF cs[2] \in {CodeUnit("b"), CodeUnit("B")} THEN 2
         ELSE 0
    ELSE 0

\* StringToNumber of ECMAScript: white space is trimmed; the empty string is
\* +0; a StringNumericLiteral has its value, rounded to a double; anything
\* else is NaN.
StringToNumber(chars) ==
    CHOOSE r \in
        { LET signed == Len(cs) > 0 /\ cs[1] \in {CodeUnit("+"), CodeUnit("-")}
              neg == signed /\ cs[1] = CodeUnit("-")
              body == IF signed THEN SubSeq(cs, 2, Len(cs)) ELSE cs
              radix == RadixOf(cs)
          IN  IF cs = << >> THEN Zero(FALSE)
              ELSE IF radix # 0
                   THEN IF AllDigits(SubSeq(cs, 3, Len(cs)), radix)
                        THEN RoundRatio(FALSE, DigitsValue(SubSeq(cs, 3, Len(cs)), radix), << 1 >>, 0)
                        ELSE NaN
              ELSE IF body = InfinityChars THEN Infinity(neg)
              ELSE UnsignedDecimal(neg, body)
          : cs \in {Trim(chars)} } : TRUE

(* -------------------------- number to string ---------------------------- *)

\* The natural number m * 2^e of a finite double with e >= 0.
Magnitude(x) == BigShiftLeft(x.m, x.e)

\* x >= 10^21, for a finite double x >= 0.
AtLeastTen21(x) ==
    x.e > 0 /\ (BigBitLen(x.m) + x.e > 70 \/ BigCmp(Magnitude(x), BigPow10(21)) >= 0)

\* The decimal digits of the natural number mag, k of them or more, that
\* Number::toString writes for a double x = mag of n decimal digits: the
\* fewest digits s with s * 10^(n-k) rounding to x, and of those the
\* nearest to x.  Rounding up to k digits can give 10^k, which is the digit
\* 1 with the exponent n.
RECURSIVE ShortestDigits(_, _, _, _)
ShortestDigits(x, mag, n, k) ==
    CHOOSE r \in
        { CHOOSE t \in
              { CHOOSE u \in
                    { IF fits = {} THEN ShortestDigits(x, mag, n, k + 1)
                      ELSE IF Cardinality(fits) = 2
                           THEN CHOOSE v \in
                                    { IF c < 0 \/ (c = 0 /\ BigBit(qr[1], 0) = 0)
                                      THEN qr[1] ELSE BigAdd(qr[1], << 1 >>)
                                      : c \in {BigCmp(BigDouble(qr[2], 0), p)} } : TRUE
                      ELSE CHOOSE s \in fits : TRUE
                      : fits \in {{s \in {qr[1], BigAdd(qr[1], << 1 >>)} :
                                     RoundRatio(FALSE, BigMul(s, p), << 1 >>, 0)
                                        = [x EXCEPT !.neg = FALSE]}} } : TRUE
                : qr \in {BigDivMod(mag, p)} } : TRUE
          : p \in {BigPow10(n - k)} } : TRUE

\* Number::toString of a finite double x >= 10^21: scientific notation,
\* d.ddde+(n-1).
ExponentialNotation(x) ==
    CHOOSE r \in
        { CHOOSE t \in
              { CHOOSE u \in
                    { LET carried == Len(s) > 1 /\ \A i \in 2..Len(s) : s[i] = "0"
                          ds == IF carried THEN << s[1] >> ELSE s
                          exponent == IF carried THEN n - 1 + (Len(s) - 1) ELSE n - 1
                      IN  Concat(<< ds[1] >>
                                 \o (IF Len(ds) > 1 THEN << "." >> \o SubSeq(ds, 2, Len(ds))
                                     ELSE << >>)
                                 \o << "e", "+" >> \o IntToDecimal(exponent))
                      : s \in {BigToDecimal(ShortestDigits(x, mag, n, 1))} } : TRUE
                : n \in {Len(BigToDecimal(mag))} } : TRUE
          : mag \in {Magnitude(x)} } : TRUE

(* ------------------------------- toFixed -------------------------------- *)

FractionDigits == 2

\* The integer n for which n / 10^f - x is as close to zero as possible,
\* the larger n when there are two (Number.prototype.toFixed, step 10a),
\* for a finite double x >= 0.
NearestScaled(x) ==
    CHOOSE r \in
        { IF x.e >= 0 THEN BigShiftLeft(scaled, x.e)
          ELSE BigAdd(BigShiftRight(scaled, 0 - x.e),
                      BigFromInt(BigBit(scaled, (0 - x.e) - 1)))
          : scaled \in {BigMul(x.m, BigPow10(FractionDigits))} } : TRUE

\* The digits of n with a point before the last f of them, zeros put in
\* front when n has f digits or fewer.
FixedNotation(n) ==
    CHOOSE r \in
        { CHOOSE t \in
              { Concat(SubSeq(padded, 1, Len(padded) - FractionDigits) \o << "." >>
                       \o SubSeq(padded, Len(padded) - FractionDigits + 1, Len(padded)))
                : padded \in {[i \in 1..(FractionDigits + 1 - Len(ds)) |-> "0"] \o ds} } : TRUE
          : ds \in {BigToDecimal(n)} } : TRUE

\* A toFixed that drops the digits after the second instead of rounding.
toFixedTruncating(v) ==
    CHOOSE r \in
        { IF x.k = "nan" THEN "NaN"
          ELSE IF x.k = "inf" THEN (IF x.neg THEN "-Infinity" ELSE "Infinity")
          ELSE (IF x.neg /\ ~IsZero(x) THEN "-" ELSE "")
               \o (IF AtLeastTen21(x) THEN ExponentialNotation(x)
                   ELSE FixedNotation(
                            IF x.e >= 0
                            THEN BigShiftLeft(BigMul(x.m, BigPow10(FractionDigits)), x.e)
                            ELSE BigShiftRight(BigMul(x.m, BigPow10(FractionDigits)), 0 - x.e)))
          : x \in {v} } : TRUE

\* Number.prototype.toFixed(2), as ECMAScript defines it: NaN and the
\* infinities by name; a minus sign for x < 0; the shortest round-trip
\* digits in scientific notation for a magnitude of 10^21 or more; else the
\* nearest integer number of hundredths in fixed notation.
toFixed(v) ==
    CHOOSE r \in
        { IF x.k = "nan" THEN "NaN"
          ELSE IF x.k = "inf" THEN (IF x.neg THEN "-Infinity" ELSE "Infinity")
          ELSE (IF x.neg /\ ~IsZero(x) THEN "-" ELSE "")
               \o (IF AtLeastTen21(x) THEN ExponentialNotation(x)
                   ELSE FixedNotation(NearestScaled(x)))
          : x \in {v} } : TRUE

(* --------------------------- JavaScript values ------------------------- *)

\* A JavaScript value found in (or missing from) the quoteVolume field:
\* what JSON.parse can give, or undefined.  t: the type; s: the code units
\* of a string, and for a number those of the JSON number literal it was
\* parsed from; b: the value of a boolean, and for an object whether it has
\* an own property named toString (whose value, parsed from JSON, is no
\* function); a: the elements of an array.
Undefined == [t |-> "undefined", s |-> << >>, b |-> FALSE, a |-> << >>]
NullValue == [t |-> "null", s |-> << >>, b |-> FALSE, a |-> << >>]
BooleanValue(b) == [t |-> "boolean", s |-> << >>, b |-> b, a |-> << >>]
NumberValue(literal) == [t |-> "number", s |-> literal, b |-> FALSE, a |-> << >>]
StringValue(chars) == [t |-> "string", s |-> chars, b |-> FALSE, a |-> << >>]
ObjectValue(ownToString) == [t |-> "object", s |-> << >>, b |-> ownToString, a |-> << >>]
ArrayValue(elements) == [t |-> "array", s |-> << >>, b |-> FALSE, a |-> elements]

\* The double JSON.parse makes of a number literal: its value, rounded as
\* StringToNumber rounds it (every JSON number is a StringNumericLiteral).
JsonNumber(literal) == StringToNumber(literal)

\* What ToNumber gives instead of a number when the conversion throws a
\* TypeError.
TypeErrorThrown == [k |-> "throw", neg |-> FALSE, m |-> << >>, e |-> 0]

\* Making a primitive of the value throws.  A parsed object inherits
\* valueOf, which returns the object itself, and toString; with an own
\* property toString, which is no function, it has no method that gives a
\* primitive: "Cannot convert object to primitive value".  An array joins
\* the strings of its elements, null and undefined apart, and throws when
\* making one of them throws.
RECURSIVE ToPrimitiveThrows(_)
ToPrimitiveThrows(v) ==
    \/ v.t = "object" /\ v.b
    \/ v.t = "array" /\ \E i \in 1..Len(v.a) : ToPrimitiveThrows(v.a[i])

\* ToNumber, the coercion the operator / applies to each operand.  An object
\* is first made a string: a plain object "[object Object]", which is no
\* numeral; an array its elements joined by commas, so that two or more
\* elements are no numeral, none is the empty string, and one element is that
\* element as a string: empty for null and undefined, the digits of a number
\* (which read back as the number, -0 as +0), "true" or "false" for a
\* boolean.
RECURSIVE ToNumber(_)
ToNumber(value) ==
    CHOOSE r \in
        { IF ToPrimitiveThrows(v) THEN TypeErrorThrown
          ELSE IF v.t = "undefined" THEN NaN
          ELSE IF v.t = "null" THEN Zero(FALSE)
          ELSE IF v.t = "boolean" THEN (IF v.b THEN Finite(FALSE, << 1 >>, 0) ELSE Zero(FALSE))
          ELSE IF v.t = "number" THEN JsonNumber(v.s)
          ELSE IF v.t = "string" THEN StringToNumber(v.s)
          ELSE IF v.t = "object" THEN NaN
          ELSE IF Len(v.a) = 0 THEN Zero(FALSE)
          ELSE IF Len(v.a) > 1 THEN NaN
          ELSE IF v.a[1].t \in {"undefined", "null"} THEN Zero(FALSE)
          ELSE IF v.a[1].t = "boolean" THEN NaN
          ELSE IF v.a[1].t = "number"
               THEN CHOOSE t \in
                        { IF IsZero(x) THEN Zero(FALSE) ELSE x
                          : x \in {JsonNumber(v.a[1].s)} } : TRUE
          ELSE ToNumber(v.a[1])
          : v \in {value} } : TRUE

\* The quoteVolume values of the ticker documents the model's network
\* returns: numbers, and decimal numerals as the exchange sends them.
QuoteVolumes ==
    { NumberValue(<< 48 >>),                 \* 0
      NumberValue(<< 49, 53 >>),             \* 15
      StringValue(<< 48, 46, 48, 48, 48, 48, 48, 48, 48, 48 >>),   \* "0.00000000"
      NumberValue(<< 53, 48, 48 >>),         \* 500
      NumberValue(<< 49, 48, 48, 48 >>),     \* 1000
      NumberValue(<< 49, 101, 50, 51 >>),    \* 1e23
      StringValue(<< 50, 48, 55, 54, 48, 51, 49, 53, 56, 55, 46,
                     53, 54, 50, 57, 55, 52, 49, 48 >>) }
                                               \* "2076031587.56297410"

\* The quoteVolume values of the documents of its failing answers: none,
\* the text "abc", which is no numeral, an object with a property toString,
\* and the number 1 to set them against.
ErrorVolumes ==
    { Undefined, StringValue(<< 97, 98, 99 >>), ObjectValue(TRUE), NumberValue(<< 49 >>) }

(* ------------------------------ the network ---------------------------- *)

\* A parsed JSON document: null, or an object with (or without: then the
\* field reads as undefined) a quoteVolume field.
NullDoc == [t |-> "null", quoteVolume |-> Undefined]
ObjectDoc(qv) == [t |-> "object", quoteVolume |-> qv]
NoDoc == [t |-> "unset", quoteVolume |-> Undefined]

\* A response body: text that is not JSON, or the JSON text of a document.
\* fetch resolves when the status and headers have arrived; the body is
\* still unread then, and json() reads it.
TextBody == [t |-> "text", doc |-> NoDoc]
JsonBody(doc) == [t |-> "json", doc |-> doc]
Unread == [t |-> "unread", doc |-> NoDoc]

Response(status, body) == [status |-> status, body |-> body]
NoResponse == [status |-> 0, body |-> [t |-> "none", doc |-> NoDoc]]

IsOk(status) == status >= 200 /\ status <= 299

\* The network of ticker documents: every request is answered 200, with a
\* body that is no JSON, the JSON text null, or a ticker document.
Responses == {Response(200, Unread)}

Bodies ==
    {TextBody, JsonBody(NullDoc)} \cup {JsonBody(ObjectDoc(q)) : q \in QuoteVolumes}

\* The network of failing answers: a request is answered 200 or, as the
\* exchange answers an unknown symbol, 400 with a JSON object that has a
\* code and a message and no quoteVolume.
ErrorResponses == {Response(st, Unread) : st \in {200, 400}}

ErrorBodiesOf(status) ==
    IF IsOk(status) THEN {JsonBody(ObjectDoc(q)) : q \in ErrorVolumes} \cup {TextBody}
    ELSE {JsonBody(ObjectDoc(Undefined))}

\* The network under which invocations are raced: 200, with one ticker
\* document (its quoteVolume the number 1) or a body that is no JSON.
RaceResponses == {Response(200, Unread)}

RaceBodies == {JsonBody(ObjectDoc(NumberValue(<< 49 >>))), TextBody}

\* response.json() that yields an empty object for a body that is not JSON.
JsonLenient(body) ==
    IF body.t = "json" THEN [ok |-> TRUE, value |-> body.doc]
    ELSE [ok |-> TRUE, value |-> ObjectDoc(Undefined)]

\* response.json(): resolves with the parsed document, or rejects.
Json(body) ==
    IF body.t = "json" THEN [ok |-> TRUE, value |-> body.doc]
    ELSE [ok |-> FALSE, value |-> NoDoc]


\* Line 12: the quotient of the two volumes, formatted (ok, with the
\* string as value), or the TypeError of an operand that cannot be made a
\* number.
MarketCapRatio(d1, d2) ==
    CHOOSE r \in
        { IF x.k = "throw" \/ y.k = "throw" THEN [ok |-> FALSE, value |-> ""]
          ELSE [ok |-> TRUE, value |-> toFixed(Divide(x, y))]
          : x \in {ToNumber(d1.quoteVolume)}, y \in {ToNumber(d2.quoteVolume)} } : TRUE

\* The objects the model's networks deliver, in some order, and
\* marketCapRatio for each pair of them.
Documents == {ObjectDoc(q) : q \in QuoteVolumes \cup ErrorVolumes}

RECURSIVE Enumerate(_)
Enumerate(S) ==
    CHOOSE r \in
        { IF T = {} THEN << >>
          ELSE CHOOSE t \in { << x >> \o Enumerate(T \ {x}) : x \in {CHOOSE y \in T : TRUE} } : TRUE
          : T \in {S} } : TRUE

DocumentList == Enumerate(Documents)

DocumentIndex(d) == CHOOSE k \in 1..Len(DocumentList) : DocumentList[k] = d

MarketCapRatios == [d1 \in Documents, d2 \in Documents |-> MarketCapRatio(d1, d2)]

\* The same by the documents' places in the list.
RatioTable ==
    [k1 \in 1..Len(DocumentList) |->
        [k2 \in 1..Len(DocumentList) |->
            MarketCapRatio(DocumentList[k1], DocumentList[k2])]]

(* ------------------------------- the state ----------------------------- *)

VARIABLES
    field1,     \* value of the input element #crypto1
    field2,     \* value of the input element #crypto2
    display,    \* textContent of the element #crypto-data
    writes,     \* the assignments to display so far: [inv, text], in order
    clicks,     \* the invocations started so far, in the order of their clicks
    console,    \* the console.error records so far: [inv, err], in order
    requests,   \* requests[i]: the URLs invocation i has passed to fetch
    pc,         \* pc[i]: where invocation i stands
    crypto1,    \* the handler's constants, per invocation
    crypto2,
    response1,
    response2,
    data1,
    data2,
    ratios      \* line 12 as a table: ratios[k1][k2] is marketCapRatio for
                \* the documents k1 and k2 of DocumentList

vars ==
    << field1, field2, display, writes, clicks, console, requests, pc,
       crypto1, crypto2, response1, response2, data1, data2, ratios >>

page == << field1, field2 >>
locals == << crypto1, crypto2, response1, response2, data1, data2 >>

\* What the handler throws or is rejected with.
FetchError == "TypeError: Failed to fetch"
JsonError == "SyntaxError: Unexpected token"
NullError == "TypeError: Cannot read properties of null"
PrimitiveError == "TypeError: Cannot convert object to primitive value"

ErrorText == "Error fetching data."

\* The request URL for a symbol.
Url(symbol) == "https://api.binance.com/api/v3/ticker/24hr?symbol=" \o symbol

\* The text of a successful comparison.
SuccessText(a, ratio, b) == "1 " \o a \o " = " \o ratio \o " " \o b

\* The success text built from the input fields as they are when the
\* result is displayed.
SuccessStringFromFields(i, ratio) == SuccessText(field1, ratio, field2)

\* The template literal of the success path, over the invocation's constants.
SuccessString(i, ratio) == SuccessText(crypto1[i], ratio, crypto2[i])

\* An element that keeps the first text it was given.
SetTextContentOnce(old, text) == IF old = "" THEN text ELSE old

\* Assigning textContent replaces the element's text.
SetTextContent(old, text) == text

\* Both requests issued at once, as concurrent fetches would be.
RequestsAtClickBoth(a, b) == << Url(a), Url(b) >>

\* The requests issued before the handler first suspends.
RequestsAtClick(a, b) == << Url(a) >>

\* A catch block that displays what it has of the result.
CatchTextPartial(i) == "1 " \o crypto1[i] \o " = "

\* The text the catch block displays.
CatchText(i) == ErrorText

\* A catch block that only logs.
CatchSilent(i, err) ==
    /\ console' = Append(console, [inv |-> i, err |-> err])
    /\ pc' = [pc EXCEPT ![i] = "done"]
    /\ UNCHANGED << display, writes >>

\* The catch block: display the error text, log the error, return.
Catch(i, err) ==
    /\ display' = SetTextContent(display, CatchText(i))
    /\ writes' = Append(writes, [inv |-> i, text |-> CatchText(i)])
    /\ console' = Append(console, [inv |-> i, err |-> err])
    /\ pc' = [pc EXCEPT ![i] = "done"]

TypeOK ==
    /\ field1 \in Symbols /\ field2 \in Symbols
    /\ pc \in [Invocations ->
                {"idle", "fetch1", "fetch2", "json1", "json2", "done"}]
    /\ \A i \in Invocations : Len(requests[i]) <= 2
    /\ ratios = RatioTable

\* The page as loaded: nothing displayed, no click yet.  The markup that
\* gives the input fields their initial values is not part of the script:
\* they start with any of the symbols.  Line 12 is a function of the two
\* documents alone; the state holds it as a table, which no step changes,
\* so that each quotient is computed and formatted once.
Init ==
    /\ ratios = RatioTable
    /\ field1 \in Symbols
    /\ field2 \in Symbols
    /\ display = ""
    /\ writes = <<>>
    /\ clicks = <<>>
    /\ console = <<>>
    /\ requests = [i \in Invocations |-> <<>>]
    /\ pc = [i \in Invocations |-> "idle"]
    /\ crypto1 = [i \in Invocations |-> ""]
    /\ crypto2 = [i \in Invocations |-> ""]
    /\ response1 = [i \in Invocations |-> NoResponse]
    /\ response2 = [i \in Invocations |-> NoResponse]
    /\ data1 = [i \in Invocations |-> NoDoc]
    /\ data2 = [i \in Invocations |-> NoDoc]

(* ------------------------------ the actions ---------------------------- *)

\* The user edits an input field.
SetCrypto1(s) ==
    /\ field1 # s
    /\ field1' = s
    /\ UNCHANGED << ratios, field2, display, writes, clicks, console, requests, pc,
                    locals >>

SetCrypto2(s) ==
    /\ field2 # s
    /\ field2' = s
    /\ UNCHANGED << ratios, field1, display, writes, clicks, console, requests, pc,
                    locals >>

\* A click: the handler reads both fields, calls fetch for the first symbol
\* and suspends.
Click(i) ==
    /\ pc[i] = "idle"
    /\ crypto1' = [crypto1 EXCEPT ![i] = field1]
    /\ crypto2' = [crypto2 EXCEPT ![i] = field2]
    /\ requests' = [requests EXCEPT ![i] = RequestsAtClick(field1, field2)]
    /\ pc' = [pc EXCEPT ![i] = "fetch1"]
    /\ clicks' = Append(clicks, i)
    /\ UNCHANGED << ratios, page, display, writes, console, response1, response2,
                    data1, data2 >>

\* The first fetch resolves (whatever the status): the handler calls fetch
\* for the second symbol and suspends.
Fetch1Resolve(i, r) ==
    /\ pc[i] = "fetch1"
    /\ response1' = [response1 EXCEPT ![i] = r]
    /\ requests' = [requests EXCEPT ![i] = Append(@, Url(crypto2[i]))]
    /\ pc' = [pc EXCEPT ![i] = "fetch2"]
    /\ UNCHANGED << ratios, page, clicks, display, writes, console, crypto1,
                    crypto2, response2, data1, data2 >>

\* The first fetch rejects (no response: a network failure).
Fetch1Reject(i) ==
    /\ pc[i] = "fetch1"
    /\ Catch(i, FetchError)
    /\ UNCHANGED << ratios, page, clicks, requests, locals >>

\* The second fetch resolves: the handler calls response1.json() and suspends.
Fetch2Resolve(i, r) ==
    /\ pc[i] = "fetch2"
    /\ response2' = [response2 EXCEPT ![i] = r]
    /\ pc' = [pc EXCEPT ![i] = "json1"]
    /\ UNCHANGED << ratios, page, clicks, display, writes, console, requests,
                    crypto1, crypto2, response1, data1, data2 >>

Fetch2Reject(i) ==
    /\ pc[i] = "fetch2"
    /\ Catch(i, FetchError)
    /\ UNCHANGED << ratios, page, clicks, requests, locals >>

\* response1.json() reads body b and resolves: the handler calls
\* response2.json() and suspends.
Json1Resolve(i, b) ==
    /\ pc[i] = "json1"
    /\ Json(b).ok
    /\ response1' = [response1 EXCEPT ![i].body = b]
    /\ data1' = [data1 EXCEPT ![i] = Json(b).value]
    /\ pc' = [pc EXCEPT ![i] = "json2"]
    /\ UNCHANGED << ratios, page, clicks, display, writes, console, requests,
                    crypto1, crypto2, response2, data2 >>

Json1Reject(i, b) ==
    /\ pc[i] = "json1"
    /\ ~Json(b).ok
    /\ response1' = [response1 EXCEPT ![i].body = b]
    /\ Catch(i, JsonError)
    /\ UNCHANGED << ratios, page, clicks, requests, crypto1, crypto2, response2,
                    data1, data2 >>

\* response2.json() reads body b and resolves: the handler reads both
\* quoteVolume fields (reading a property of null throws), computes the
\* ratio (which throws for an operand that cannot be made a number),
\* displays the success text and returns.
Json2Resolve(i, b) ==
    /\ pc[i] = "json2"
    /\ Json(b).ok
    /\ response2' = [response2 EXCEPT ![i].body = b]
    /\ LET d2 == Json(b).value
       IN  /\ data2' = [data2 EXCEPT ![i] = d2]
           /\ IF data1[i].t = "null" \/ d2.t = "null"
              THEN Catch(i, NullError)
              ELSE IF ~ratios[DocumentIndex(data1[i])][DocumentIndex(d2)].ok
              THEN Catch(i, PrimitiveError)
              ELSE LET text == SuccessString(i,
                                   ratios[DocumentIndex(data1[i])][DocumentIndex(d2)].value)
                   IN  /\ display' = SetTextContent(display, text)
                       /\ writes' = Append(writes, [inv |-> i, text |-> text])
                       /\ pc' = [pc EXCEPT ![i] = "done"]
                       /\ UNCHANGED console
    /\ UNCHANGED << ratios, page, clicks, requests, crypto1, crypto2, response1,
                    data1 >>

Json2Reject(i, b) ==
    /\ pc[i] = "json2"
    /\ ~Json(b).ok
    /\ response2' = [response2 EXCEPT ![i].body = b]
    /\ Catch(i, JsonError)
    /\ UNCHANGED << ratios, page, clicks, requests, crypto1, crypto2, response1,
                    data1, data2 >>

\* Every step of the page: an edit of a field, a click, or the settling of
\* an await of some invocation.  The network of ticker documents:
Next ==
    \/ \E s \in Symbols : SetCrypto1(s)
    \/ \E s \in Symbols : SetCrypto2(s)
    \/ \E i \in Invocations : Click(i)
    \/ \E i \in Invocations, r \in Responses : Fetch1Resolve(i, r)
    \/ \E i \in Invocations : Fetch1Reject(i)
    \/ \E i \in Invocations, r \in Responses : Fetch2Resolve(i, r)
    \/ \E i \in Invocations : Fetch2Reject(i)
    \/ \E i \in Invocations, b \in Bodies : Json1Resolve(i, b)
    \/ \E i \in Invocations, b \in Bodies : Json1Reject(i, b)
    \/ \E i \in Invocations, b \in Bodies : Json2Resolve(i, b)
    \/ \E i \in Invocations, b \in Bodies : Json2Reject(i, b)

Spec == Init /\ [][Next]_vars

\* The same steps against the network of failing answers.
NextErrors ==
    \/ \E s \in Symbols : SetCrypto1(s)
    \/ \E s \in Symbols : SetCrypto2(s)
    \/ \E i \in Invocations : Click(i)
    \/ \E i \in Invocations, r \in ErrorResponses : Fetch1Resolve(i, r)
    \/ \E i \in Invocations : Fetch1Reject(i)
    \/ \E i \in Invocations, r \in ErrorResponses : Fetch2Resolve(i, r)
    \/ \E i \in Invocations : Fetch2Reject(i)
    \/ \E i \in Invocations :
          \E b \in ErrorBodiesOf(response1[i].status) : Json1Resolve(i, b)
    \/ \E i \in Invocations :
          \E b \in ErrorBodiesOf(response1[i].status) : Json1Reject(i, b)
    \/ \E i \in Invocations :
          \E b \in ErrorBodiesOf(response2[i].status) : Json2Resolve(i, b)
    \/ \E i \in Invocations :
          \E b \in ErrorBodiesOf(response2[i].status) : Json2Reject(i, b)

SpecErrors == Init /\ [][NextErrors]_vars

\* The same steps against the network under which invocations are raced.
NextRace ==
    \/ \E s \in Symbols : SetCrypto1(s)
    \/ \E s \in Symbols : SetCrypto2(s)
    \/ \E i \in Invocations : Click(i)
    \/ \E i \in Invocations, r \in RaceResponses : Fetch1Resolve(i, r)
    \/ \E i \in Invocations : Fetch1Reject(i)
    \/ \E i \in Invocations, r \in RaceResponses : Fetch2Resolve(i, r)
    \/ \E i \in Invocations : Fetch2Reject(i)
    \/ \E i \in Invocations, b \in RaceBodies : Json1Resolve(i, b)
    \/ \E i \in Invocations, b \in RaceBodies : Json1Reject(i, b)
    \/ \E i \in Invocations, b \in RaceBodies : Json2Resolve(i, b)
    \/ \E i \in Invocations, b \in RaceBodies : Json2Reject(i, b)

SpecRace == Init /\ [][NextRace]_vars

(* ------------------------------- the claims ---------------------------- *)

Done(i) == pc[i] = "done"

\* The texts invocation i has written to the display, in order.
RECURSIVE TextsIn(_, _)
TextsIn(ws, i) ==
    IF ws = <<>> THEN <<>>
    ELSE IF Head(ws).inv = i THEN << Head(ws).text >> \o TextsIn(Tail(ws), i)
    ELSE TextsIn(Tail(ws), i)

TextsOf(i) == TextsIn(writes, i)

Logged(i) == \E p \in 1..Len(console) : console[p].inv = i

\* Invocation i made the most recent write to the display.
LastWriter(i) == writes # <<>> /\ writes[Len(writes)].inv = i

\* Invocation i has written the text, and nothing else, and the display
\* reads it until another invocation writes.
Shows(i, text) == TextsOf(i) = << text >> /\ (LastWriter(i) => display = text)

\* Invocation i ran while another was in flight: one clicked before it
\* that has not finished.
Overlapped(i) ==
    \E p, q \in 1..Len(clicks) :
        /\ p < q
        /\ clicks[q] = i
        /\ pc[clicks[p]] \in {"fetch1", "fetch2", "json1", "json2"}

\* Both fetches of invocation i resolved with a response.
BothArrived(i) == response1[i] # NoResponse /\ response2[i] # NoResponse

\* The body of a response is the JSON text of an object.
IsObjectBody(body) == body.t = "json" /\ body.doc.t = "object"

Volume1(i) == response1[i].body.doc.quoteVolume
Volume2(i) == response2[i].body.doc.quoteVolume

\* The number each quoteVolume of the model's networks is taken for, and
\* the quotient of each two of them, computed once.
NumberOf == [v \in QuoteVolumes \cup ErrorVolumes |-> ToNumber(v)]

QuotientOf ==
    [a \in QuoteVolumes \cup ErrorVolumes, b \in QuoteVolumes \cup ErrorVolumes |->
        IF NumberOf[a].k = "throw" \/ NumberOf[b].k = "throw" THEN NaN
        ELSE Divide(NumberOf[a], NumberOf[b])]

\* A quoteVolume that is a number, or a numeral as the exchange sends it.
Numeric(v) == v.t \in {"number", "string"} /\ NumberOf[v].k = "fin"

\* Both requests succeeded and both bodies parsed to objects whose
\* quoteVolume values are numbers, the second not zero.
NumbersArrived(i) ==
    /\ Done(i)
    /\ BothArrived(i)
    /\ IsOk(response1[i].status) /\ IsOk(response2[i].status)
    /\ IsObjectBody(response1[i].body)
    /\ IsObjectBody(response2[i].body)
    /\ Numeric(Volume1(i))
    /\ Numeric(Volume2(i))
    /\ ~IsZero(NumberOf[Volume2(i)])

\* The quotient of the two volumes of invocation i, a double.
Quotient(i) == QuotientOf[Volume1(i), Volume2(i)]

\* The number of hundredths nearest to the magnitude of a finite double q:
\* the integer below 100|q| when the rest is under a half, else the one above.
NearestHundredths(q) ==
    LET s == BigMulSmall(q.m, 100)
        below == BigShiftRight(s, 0 - q.e)
        rest == BigLowBits(s, 0 - q.e)
    IN  IF q.e >= 0 THEN BigShiftLeft(s, q.e)
        ELSE IF BigCmp(BigDouble(rest, 0), BigShiftLeft(<< 1 >>, 0 - q.e)) < 0
             THEN below
        ELSE BigAdd(below, << 1 >>)

\* A finite double rounded to two decimal places, in decimal notation.
TwoDecimals(q) ==
    (IF q.neg /\ ~IsZero(q) THEN "-" ELSE "") \o FixedNotation(NearestHundredths(q))

\* The quotient of each two volumes rounded to two decimal places.
TwoDecimalsOf ==
    [a \in QuoteVolumes \cup ErrorVolumes, b \in QuoteVolumes \cup ErrorVolumes |->
        IF QuotientOf[a, b].k = "fin" THEN TwoDecimals(QuotientOf[a, b]) ELSE ""]

Rounded(i) == TwoDecimalsOf[Volume1(i), Volume2(i)]

\* The success text of invocation i with the quotient of its volumes
\* rounded to two decimal places.
RatioText(i) == "1 " \o crypto1[i] \o " = " \o Rounded(i) \o " " \o crypto2[i]

\* C1 as stated: when both requests succeed and both bodies parse to
\* objects whose quoteVolume values are numbers vA and vB (numerals
\* included), vB # 0, a finished invocation has written "1 A = r B", r being
\* vA/vB (the double) rounded to two decimal places, and the display reads
\* it until another invocation writes.
C1_RatioDisplayed ==
    \A i \in Invocations :
        NumbersArrived(i) => (Quotient(i).k = "fin" /\ Shows(i, RatioText(i)))

\* C1 amended: the same, when the quotient (the double vA/vB) is finite and
\* below 10^21 in magnitude: r is the number of hundredths nearest to the
\* quotient, the larger at a tie, written with two fraction digits, and
\* nothing is logged.
C1_RatioDisplayedBelowTen21 ==
    \A i \in Invocations :
        (/\ NumbersArrived(i)
         /\ Quotient(i).k = "fin"
         /\ ~AtLeastTen21(Quotient(i)))
        => (Shows(i, RatioText(i)) /\ ~Logged(i))

\* The scenario of the specification: 1000 against 500 displays 2.00,
\* here while another invocation is in flight.
C1_Witness ==
    \E i \in Invocations :
        /\ Done(i)
        /\ Overlapped(i)
        /\ crypto1[i] = "BTCUSDT" /\ crypto2[i] = "ETHUSDT"
        /\ IsOk(response1[i].status) /\ IsOk(response2[i].status)
        /\ IsObjectBody(response1[i].body)
        /\ IsObjectBody(response2[i].body)
        /\ Volume1(i) = NumberValue(<< 49, 48, 48, 48 >>)
        /\ Volume2(i) = NumberValue(<< 53, 48, 48 >>)
        /\ TextsOf(i) = << "1 BTCUSDT = 2.00 ETHUSDT" >>
        /\ display = "1 BTCUSDT = 2.00 ETHUSDT"

\* C2: an invocation one of whose fetches rejected has written exactly the
\* text "Error fetching data." and nothing else, and the display reads it
\* until another invocation writes.
C2_FetchFailureShowsError ==
    \A i \in Invocations :
        (Done(i) /\ ~BothArrived(i)) => Shows(i, "Error fetching data.")

\* The second fetch of an invocation rejected while another invocation was
\* in flight, which has written a success text since.
C2_Witness ==
    \E i \in Invocations :
        /\ Done(i)
        /\ response1[i] # NoResponse
        /\ response2[i] = NoResponse
        /\ TextsOf(i) = << "Error fetching data." >>
        /\ Len(writes) = 2
        /\ writes[1].inv = i
        /\ display # "Error fetching data."

\* C3: an invocation one of whose requests completed with a non-success
\* HTTP status has written exactly "Error fetching data." and logged a
\* diagnostic record.
C3_HttpErrorShowsError ==
    \A i \in Invocations :
        (/\ Done(i)
         /\ \/ (response1[i] # NoResponse /\ ~IsOk(response1[i].status))
            \/ (response2[i] # NoResponse /\ ~IsOk(response2[i].status)))
        => (TextsOf(i) = << "Error fetching data." >> /\ Logged(i))

\* The quoteVolume field of a parsed document is absent or not numeric.
VolumeMissing(doc) ==
    doc.t = "null" \/ NumberOf[doc.quoteVolume].k \in {"nan", "throw"}

\* C4: when both bodies parse as JSON and quoteVolume is absent or
\* non-numeric in either document, the invocation has written exactly
\* "Error fetching data.".
C4_MissingVolumeShowsError ==
    \A i \in Invocations :
        (/\ Done(i)
         /\ BothArrived(i)
         /\ response1[i].body.t = "json"
         /\ response2[i].body.t = "json"
         /\ (VolumeMissing(response1[i].body.doc)
                \/ VolumeMissing(response2[i].body.doc)))
        => TextsOf(i) = << "Error fetching data." >>

\* C5: when both fetches resolved and either body is not valid JSON, the
\* invocation has written exactly "Error fetching data.", and the display
\* reads it until another invocation writes.
C5_BadJsonShowsError ==
    \A i \in Invocations :
        (/\ Done(i)
         /\ BothArrived(i)
         /\ (response1[i].body.t = "text" \/ response2[i].body.t = "text"))
        => Shows(i, "Error fetching data.")

\* The second body of an invocation was no JSON, while another invocation
\* is in flight.
C5_Witness ==
    \E i \in Invocations :
        /\ Done(i)
        /\ BothArrived(i)
        /\ response1[i].body.t = "json"
        /\ response2[i].body.t = "text"
        /\ TextsOf(i) = << "Error fetching data." >>
        /\ display = "Error fetching data."
        /\ Overlapped(i)

\* C6: an invocation writes the display at most once, and a finished one
\* has written it exactly once: the error text if it logged an error, the
\* success text of its own symbols and volumes if it did not.
C6_OneWritePerInvocation ==
    \A i \in Invocations :
        /\ Len(TextsOf(i)) <= 1
        /\ Done(i) =>
            /\ Len(TextsOf(i)) = 1
            /\ IF Logged(i)
               THEN TextsOf(i)[1] = "Error fetching data."
               ELSE /\ TextsOf(i)[1] # "Error fetching data."
                    /\ TextsOf(i)[1] =
                          SuccessText(crypto1[i],
                                      MarketCapRatios[data1[i], data2[i]].value,
                                      crypto2[i])

\* Two finished invocations, one by each path.
C6_Witness ==
    \E i, j \in Invocations :
        /\ Done(i) /\ Done(j)
        /\ Logged(i) /\ ~Logged(j)
        /\ Len(writes) = 2

NonFiniteTexts == {"NaN", "Infinity", "-Infinity"}

\* The success text of invocation i with a non-finite ratio.
NonFiniteSuccess(i) ==
    \E r \in NonFiniteTexts :
        TextsOf(i) = << "1 " \o crypto1[i] \o " = " \o r \o " " \o crypto2[i] >>

\* C7: when both requests succeed with ticker documents (the first
\* symbol's quoteVolume a number or a numeral) and the second symbol's
\* quoteVolume is 0, the invocation does not take the error path: it writes
\* a success text whose ratio is NaN, Infinity or -Infinity, and nothing is
\* logged.
C7_ZeroDivisorNonFinite ==
    \A i \in Invocations :
        (/\ Done(i)
         /\ BothArrived(i)
         /\ IsOk(response1[i].status) /\ IsOk(response2[i].status)
         /\ IsObjectBody(response1[i].body)
         /\ IsObjectBody(response2[i].body)
         /\ Numeric(Volume1(i))
         /\ Numeric(Volume2(i))
         /\ IsZero(NumberOf[Volume2(i)]))
        => (NonFiniteSuccess(i) /\ ~Logged(i))

\* 15 against 0 displays Infinity, while another invocation is in flight.
C7_Witness ==
    \E i \in Invocations :
        /\ Done(i)
        /\ Overlapped(i)
        /\ IsOk(response1[i].status) /\ IsOk(response2[i].status)
        /\ IsObjectBody(response1[i].body)
        /\ IsObjectBody(response2[i].body)
        /\ Volume1(i) = NumberValue(<< 49, 53 >>)
        /\ Volume2(i) = NumberValue(<< 48 >>)
        /\ TextsOf(i) = << "1 " \o crypto1[i] \o " = Infinity " \o crypto2[i] >>

\* C8: overlapping invocations do not coordinate: the display always holds
\* the text of the most recent write, whichever invocation made it.
C8_LastWriterWins ==
    /\ writes = <<>> => display = ""
    /\ writes # <<>> => display = writes[Len(writes)].text

\* The invocation clicked first wrote last and its text stands.
C8_Witness ==
    /\ clicks = << 1, 2 >>
    /\ Done(1) /\ Done(2)
    /\ Len(writes) = 2
    /\ writes[1].inv = 2 /\ writes[2].inv = 1
    /\ writes[1].text # writes[2].text
    /\ display = writes[2].text

\* The invocations that write the display in a step.
NewWrite(i) == Len(writes') = Len(writes) + 1 /\ writes'[Len(writes')].inv = i

\* C9: an invocation takes both symbols from the input fields at its click
\* and keeps them: its first URL is built from the first field at the
\* click, its second URL and its success text from the values read then,
\* whatever the fields hold later.
C9_SymbolsReadAtClick ==
    [][\A i \in Invocations :
        /\ (pc[i] = "idle" /\ pc'[i] # "idle") =>
              /\ crypto1'[i] = field1
              /\ crypto2'[i] = field2
              /\ requests'[i] = << Url(field1) >>
        /\ pc[i] # "idle" =>
              /\ crypto1'[i] = crypto1[i]
              /\ crypto2'[i] = crypto2[i]
              /\ requests'[i] # requests[i] =>
                    requests'[i] = Append(requests[i], Url(crypto2[i]))
              /\ (NewWrite(i) /\ writes'[Len(writes')].text # ErrorText) =>
                    writes'[Len(writes')].text =
                        SuccessText(crypto1[i],
                                    MarketCapRatios[data1'[i], data2'[i]].value,
                                    crypto2[i])
      ]_vars

\* A success text stands that names symbols both fields no longer hold,
\* written after another click.
C9_Witness ==
    \E i \in Invocations :
        /\ Done(i)
        /\ ~Logged(i)
        /\ crypto1[i] # field1
        /\ crypto2[i] # field2
        /\ requests[i] = << Url(crypto1[i]), Url(crypto2[i]) >>
        /\ display = TextsOf(i)[1]

\* C10: the second request is issued only after the first response has
\* arrived, never when the first fetch failed, and a success text is
\* written only after both responses arrived and both bodies were parsed.
C10_Sequential ==
    \A i \in Invocations :
        /\ Len(requests[i]) <= 2
        /\ Len(requests[i]) = 2 => response1[i] # NoResponse
        /\ (Done(i) /\ response1[i] = NoResponse) =>
              requests[i] = << Url(crypto1[i]) >>
        /\ (TextsOf(i) # <<>> /\ TextsOf(i)[1] # "Error fetching data.") =>
              /\ BothArrived(i)
              /\ data1[i] # NoDoc
              /\ data2[i] # NoDoc

\* The first fetch of an invocation failed and its second request was never
\* issued, while another invocation has issued both of its requests.
C10_Witness ==
    \E i, j \in Invocations :
        /\ Done(i)
        /\ response1[i] = NoResponse
        /\ Len(requests[i]) = 1
        /\ TextsOf(i) = << "Error fetching data." >>
        /\ Len(requests[j]) = 2

====
